---- MODULE Spec2Model ----
(***************************************************************************)
(* A model of the resume-ranker frontend: the ranking client's status     *)
(* polling loop (frontend/src/api/resumeService.js), the upload form      *)
(* (components/UploadForm) and the upload page handlers that the form     *)
(* calls back.                                                             *)
(*                                                                         *)
(* JavaScript values are modelled as follows: a string the code only      *)
(* compares or passes on is a TLA+ string; a string the code trims is a   *)
(* sequence of one-character strings; `undefined` and `null` are the two  *)
(* sentinel strings Undefined and Null, which no server string equals.    *)
(***************************************************************************)
EXTENDS Integers, Sequences, FiniteSets, TLC

Undefined == "<undefined>"
Null == "<null>"

\* JavaScript truthiness of the string-or-missing values the code tests.
Truthy(v) == v # Undefined /\ v # Null /\ v # ""

\* a || b
JsOr(a, b) == IF Truthy(a) THEN a ELSE b

(***************************************************************************)
(* Ranking client: one HTTP round trip.                                    *)
(*                                                                         *)
(* A round trip's outcome (the environment's input) is a record           *)
(*   kind   : "network" (fetch rejects), "http" (a response arrived)      *)
(*   ok     : response.ok                                                  *)
(*   json   : whether the body parses as JSON                              *)
(*   detail : the error body's detail field (non-success responses)       *)
(*   body   : the parsed body of a success response                       *)
(***************************************************************************)
NoBody == [status |-> Undefined, message |-> Undefined]

NetworkFailure ==
  [kind |-> "network", ok |-> FALSE, json |-> FALSE, detail |-> Undefined, body |-> NoBody]

HttpError(d) ==
  [kind |-> "http", ok |-> FALSE, json |-> TRUE, detail |-> d, body |-> NoBody]

HttpErrorNoJson ==
  [kind |-> "http", ok |-> FALSE, json |-> FALSE, detail |-> Undefined, body |-> NoBody]

HttpOk(b) ==
  [kind |-> "http", ok |-> TRUE, json |-> TRUE, detail |-> Undefined, body |-> b]

StatusBody(s, m) == [status |-> s, message |-> m]

\* The result of an async client call: it returns a value or throws an error
\* (of which the model keeps the message).
Returned(v) == [threw |-> FALSE, value |-> v, error |-> Undefined]
Threw(msg) == [threw |-> TRUE, value |-> NoBody, error |-> msg]

FetchFailedMessage == "Failed to fetch"
JsonSyntaxMessage == "Unexpected token in JSON"

\* The body shared by uploadResumes, getJobStatus, getJobResults and cleanupJob:
\* await fetch; if (!response.ok) throw new Error(error.detail || fallback);
\* return await response.json(); the catch logs and rethrows.
ClientCall(fallback, resp) ==
  IF resp.kind = "network" THEN Threw(FetchFailedMessage)
  ELSE IF ~resp.ok
       THEN IF resp.json THEN Threw(JsOr(resp.detail, fallback))
                         ELSE Threw(JsonSyntaxMessage)
       ELSE IF resp.json THEN Returned(resp.body)
                         ELSE Threw(JsonSyntaxMessage)

getJobStatus(resp) == ClientCall("Failed to get job status", resp)

uploadResumes(resp) == ClientCall("Upload failed", resp)
getJobResults(resp) == ClientCall("Failed to get job results", resp)
cleanupJob(resp) == ClientCall("Failed to cleanup job", resp)

Operations == {"uploadResumes", "getJobStatus", "getJobResults", "cleanupJob"}

\* The result of operation op on a round trip that ends as resp.
Call(op, resp) ==
  CASE op = "uploadResumes" -> uploadResumes(resp)
    [] op = "getJobStatus" -> getJobStatus(resp)
    [] op = "getJobResults" -> getJobResults(resp)
    [] op = "cleanupJob" -> cleanupJob(resp)

(***************************************************************************)
(* Ranking client: pollJobStatus.                                          *)
(***************************************************************************)
\* The statuses and messages the server's job-status bodies are drawn from;
\* "queued" stands for any value the client does not recognise.
Statuses == {"pending", "processing", "queued", "completed", "failed"}
Messages == {Undefined, Null, "", "disk full"}
Details == {Undefined, "", "job not found"}

\* The round trips a client call is answered with: a success response with a JSON
\* body, a non-success response with a JSON error body (with or without a detail),
\* a non-success response whose body is not JSON (a gateway's HTML page), and no
\* response.
ClientResponses ==
  {HttpOk(StatusBody("completed", Undefined))}
    \cup {HttpError(d) : d \in Details}
    \cup {NetworkFailure, HttpErrorNoJson}

StatusResponses ==
  {HttpOk(StatusBody(s, Undefined)) : s \in Statuses \ {"failed"}}
    \cup {HttpOk(StatusBody("failed", m)) : m \in Messages}
    \cup {HttpError(d) : d \in Details}
    \cup {NetworkFailure, HttpErrorNoJson}

\* The number of status requests one run of the model lets a poll issue.
MaxPolls == 3

VARIABLES
  pollPc,        \* "idle" | "awaiting" (request in flight) | "timer" | "done"
  onProgress,    \* whether a progress callback was passed
  requests,      \* status requests issued so far
  responses,     \* the outcomes of the requests answered so far, in order
  progressLog,   \* the status objects handed to the progress callback, in order
  timersSet,     \* setTimeout(poll, pollInterval) calls so far
  promiseState,  \* "none" | "pending" | "fulfilled" | "rejected"
  resolvedWith,  \* the value the promise was fulfilled with
  rejectedWith,  \* the message of the error the promise was rejected with
  settleCalls    \* calls of resolve or reject so far

pollVars ==
  <<pollPc, onProgress, requests, responses, progressLog, timersSet,
    promiseState, resolvedWith, rejectedWith, settleCalls>>

\* The upload form's state (see the upload form section below).
VARIABLES
  form,             \* which draft of UploadForm is mounted
  page,             \* which handler the form was given as onSubmit
  resumes,          \* useState([]): the selected files
  job_description,  \* useState(""): the description text
  isUploading,      \* useState(false)
  errors,           \* useState({}): resumes, job_description and submit messages
  isDragging,       \* useState(false), the fuller draft's drop target
  callbackPending,  \* the promise onSubmit returned has not settled yet
  payload,          \* the FormData handed to onSubmit, while its promise is pending
  onSubmitCalls,    \* calls of onSubmit so far
  createRequests,   \* create-job requests issued so far
  route             \* the router's current location

formVars ==
  <<form, page, resumes, job_description, isUploading, errors, isDragging,
    callbackPending, payload, onSubmitCalls, createRequests, route>>

\* The component that called pollJobStatus.
VARIABLES
  callerMounted,    \* whether the calling component is still mounted
  unmountedWhile    \* the position of the polling loop when it was unmounted

callerVars == <<callerMounted, unmountedWhile>>

\* The ranking client's calls made so far (see the client calls section below).
VARIABLES
  clientLog         \* one record per call: the operation, the round trip, the result

clientVars == <<clientLog>>

\* The results view's state (see the results view section below).
VARIABLES
  engine,             \* which Array.prototype.sort the browser runs
  results,            \* the results prop: whether it holds candidates, and the list
  serviceReturned,    \* the candidate list as the service returned it
  sortBy,             \* useState("score")
  sortOrder,          \* useState("desc")
  sortedCandidates,   \* the list the last render displayed
  selectedCandidate   \* useState(null): the candidate in the detail overlay

resultsVars ==
  <<engine, results, serviceReturned, sortBy, sortOrder, sortedCandidates,
    selectedCandidate>>

\* What the steps of one component leave alone: the other components' state.
notPollVars == <<formVars, clientVars, resultsVars, callerVars>>
notFormVars == <<pollVars, clientVars, resultsVars, callerVars>>
notClientVars == <<pollVars, formVars, resultsVars, callerVars>>
notResultsVars == <<pollVars, formVars, clientVars, callerVars>>

CallerInit == callerMounted = TRUE /\ unmountedWhile = "mounted"

PollInit ==
  /\ pollPc = "idle"
  /\ onProgress = FALSE
  /\ requests = 0
  /\ responses = <<>>
  /\ progressLog = <<>>
  /\ timersSet = 0
  /\ promiseState = "none"
  /\ resolvedWith = NoBody
  /\ rejectedWith = Undefined
  /\ settleCalls = 0

\* resolve(v) and reject(e) of the promise: only the first call settles it.
Resolve(v) ==
  /\ settleCalls' = settleCalls + 1
  /\ IF promiseState = "pending"
     THEN promiseState' = "fulfilled" /\ resolvedWith' = v /\ UNCHANGED rejectedWith
     ELSE UNCHANGED <<promiseState, resolvedWith, rejectedWith>>

Reject(msg) ==
  /\ settleCalls' = settleCalls + 1
  /\ IF promiseState = "pending"
     THEN promiseState' = "rejected" /\ rejectedWith' = msg /\ UNCHANGED resolvedWith
     ELSE UNCHANGED <<promiseState, resolvedWith, rejectedWith>>

\* The step poll() takes once `await this.getJobStatus(jobId)` has settled with r:
\* the try block's three branches, and the catch block.
\*   do = "resolve" (with value), "reject" (with msg) or "again" (setTimeout);
\*   progress = whether the try block got as far as the progress callback.
PollStep_KeepsPollingWhenCompleted(r) ==
  IF r.threw
  THEN [do |-> "reject", progress |-> FALSE, value |-> NoBody, msg |-> r.error]
  ELSE IF r.value.status = "failed"
  THEN [do |-> "reject", progress |-> TRUE, value |-> NoBody,
        msg |-> JsOr(r.value.message, "Job failed")]
  ELSE [do |-> "again", progress |-> TRUE, value |-> NoBody, msg |-> Undefined]

PollStep_DropsFailureMessage(r) ==
  IF r.threw
  THEN [do |-> "reject", progress |-> FALSE, value |-> NoBody, msg |-> r.error]
  ELSE IF r.value.status = "completed"
  THEN [do |-> "resolve", progress |-> TRUE, value |-> r.value, msg |-> Undefined]
  ELSE IF r.value.status = "failed"
  THEN [do |-> "reject", progress |-> TRUE, value |-> NoBody, msg |-> "Job failed"]
  ELSE [do |-> "again", progress |-> TRUE, value |-> NoBody, msg |-> Undefined]

PollStep_RetriesFailedCall(r) ==
  IF r.threw
  THEN [do |-> "again", progress |-> FALSE, value |-> NoBody, msg |-> Undefined]
  ELSE IF r.value.status = "completed"
  THEN [do |-> "resolve", progress |-> TRUE, value |-> r.value, msg |-> Undefined]
  ELSE IF r.value.status = "failed"
  THEN [do |-> "reject", progress |-> TRUE, value |-> NoBody,
        msg |-> JsOr(r.value.message, "Job failed")]
  ELSE [do |-> "again", progress |-> TRUE, value |-> NoBody, msg |-> Undefined]

PollStep_RejectsUnknownStatus(r) ==
  IF r.threw
  THEN [do |-> "reject", progress |-> FALSE, value |-> NoBody, msg |-> r.error]
  ELSE IF r.value.status = "completed"
  THEN [do |-> "resolve", progress |-> TRUE, value |-> r.value, msg |-> Undefined]
  ELSE IF r.value.status \in {"pending", "processing"}
  THEN [do |-> "again", progress |-> TRUE, value |-> NoBody, msg |-> Undefined]
  ELSE [do |-> "reject", progress |-> TRUE, value |-> NoBody,
        msg |-> JsOr(r.value.message, "Job failed")]

PollStep(r) ==
  IF r.threw
  THEN [do |-> "reject", progress |-> FALSE, value |-> NoBody, msg |-> r.error]
  ELSE IF r.value.status = "completed"
  THEN [do |-> "resolve", progress |-> TRUE, value |-> r.value, msg |-> Undefined]
  ELSE IF r.value.status = "failed"
  THEN [do |-> "reject", progress |-> TRUE, value |-> NoBody,
        msg |-> JsOr(r.value.message, "Job failed")]
  ELSE [do |-> "again", progress |-> TRUE, value |-> NoBody, msg |-> Undefined]

\* pollJobStatus(jobId, onProgress, pollInterval): the promise is created and
\* poll() runs up to its first await, which issues the first status request.
StartPoll(cb) ==
  /\ pollPc = "idle"
  /\ onProgress' = cb
  /\ promiseState' = "pending"
  /\ requests' = requests + 1
  /\ pollPc' = "awaiting"
  /\ UNCHANGED <<responses, progressLog, timersSet, resolvedWith, rejectedWith, settleCalls>>
  /\ UNCHANGED notPollVars

\* A loop that looks at a cancellation flag: once the caller is unmounted a
\* non-terminal status ends the loop without a further timer.
StatusResponse_StopsWhenUnmounted(resp) ==
  /\ pollPc = "awaiting"
  /\ responses' = Append(responses, resp)
  /\ LET r == getJobStatus(resp)
         step == PollStep(r)
     IN  /\ progressLog' = IF step.progress /\ onProgress
                           THEN Append(progressLog, r.value)
                           ELSE progressLog
         /\ CASE step.do = "resolve" ->
                   Resolve(step.value) /\ pollPc' = "done" /\ UNCHANGED timersSet
              [] step.do = "reject" ->
                   Reject(step.msg) /\ pollPc' = "done" /\ UNCHANGED timersSet
              [] OTHER ->
                   /\ timersSet' = IF callerMounted THEN timersSet + 1 ELSE timersSet
                   /\ pollPc' = IF callerMounted THEN "timer" ELSE "done"
                   /\ UNCHANGED <<promiseState, resolvedWith, rejectedWith, settleCalls>>
  /\ UNCHANGED <<onProgress, requests>>
  /\ UNCHANGED notPollVars

\* A loop whose terminal branches fall through to the setTimeout call: the
\* promise is settled and a further check is scheduled all the same.
StatusResponse_SchedulesAfterSettle(resp) ==
  /\ pollPc = "awaiting"
  /\ responses' = Append(responses, resp)
  /\ LET r == getJobStatus(resp)
         step == PollStep(r)
     IN  /\ progressLog' = IF step.progress /\ onProgress
                           THEN Append(progressLog, r.value)
                           ELSE progressLog
         /\ CASE step.do = "resolve" -> Resolve(step.value)
              [] step.do = "reject" -> Reject(step.msg)
              [] OTHER ->
                   UNCHANGED <<promiseState, resolvedWith, rejectedWith, settleCalls>>
         /\ timersSet' = timersSet + 1
         /\ pollPc' = "timer"
  /\ UNCHANGED <<onProgress, requests>>
  /\ UNCHANGED notPollVars

\* The status request in flight is answered and poll() runs to its end.
StatusResponse(resp) ==
  /\ pollPc = "awaiting"
  /\ responses' = Append(responses, resp)
  /\ LET r == getJobStatus(resp)
         step == PollStep(r)
     IN  /\ progressLog' = IF step.progress /\ onProgress
                           THEN Append(progressLog, r.value)
                           ELSE progressLog
         /\ CASE step.do = "resolve" ->
                   Resolve(step.value) /\ pollPc' = "done" /\ UNCHANGED timersSet
              [] step.do = "reject" ->
                   Reject(step.msg) /\ pollPc' = "done" /\ UNCHANGED timersSet
              [] OTHER ->
                   /\ timersSet' = timersSet + 1
                   /\ pollPc' = "timer"
                   /\ UNCHANGED <<promiseState, resolvedWith, rejectedWith, settleCalls>>
  /\ UNCHANGED <<onProgress, requests>>
  /\ UNCHANGED notPollVars

\* The poll interval elapses: poll() runs again and issues the next request.
TimerFires ==
  /\ pollPc = "timer"
  /\ requests < MaxPolls
  /\ requests' = requests + 1
  /\ pollPc' = "awaiting"
  /\ UNCHANGED <<onProgress, responses, progressLog, timersSet,
                 promiseState, resolvedWith, rejectedWith, settleCalls>>
  /\ UNCHANGED notPollVars

\* The component that called pollJobStatus is unmounted. pollJobStatus takes no
\* cancellation token and returns only the promise, so nothing of the loop changes.
Unmount ==
  /\ callerMounted
  /\ pollPc # "idle"
  /\ callerMounted' = FALSE
  /\ unmountedWhile' = pollPc
  /\ UNCHANGED <<pollVars, formVars, clientVars, resultsVars>>

PollNext ==
  \/ \E cb \in BOOLEAN : StartPoll(cb)
  \/ \E resp \in StatusResponses : StatusResponse(resp)
  \/ TimerFires
  \/ Unmount

(***************************************************************************)
(* Upload form (UploadForm) and the handlers it calls back.                *)
(*                                                                         *)
(* The repository holds two drafts of the form: the fuller one with the   *)
(* drop target, whose submit button is also disabled while the form is    *)
(* incomplete ("full"), and the one with the file picker only ("basic").  *)
(* It holds three handlers the form is given as onSubmit: UploadPage.jsx  *)
(* ("UploadPage"), an earlier draft of it that only looks at response.ok  *)
(* to navigate ("UploadPageDraft"), and the one of App.jsx that ignores   *)
(* the response ("App").                                                   *)
(***************************************************************************)
FormVariants == {"full", "basic"}
PageVariants == {"UploadPage", "UploadPageDraft", "App"}

PdfType == "application/pdf"
OtherType == "text/plain"

\* if (pdfFiles.length > 10)
MaxResumes == 10

OnlyPdfMessage == "Only PDF files are allowed for resumes"
TooManyMessage == "Maximum 10 resumes allowed"
NoResumeMessage == "Please upload at least one resume"
NoDescriptionMessage == "Job description is required"
SubmitFailedMessage == "Failed to upload. Please try again."

\* The largest batch of files a selection or a drop carries in the model.
MaxBatch == 11

File(i, t) == [name |-> i, type |-> t]

\* A batch of n files, all PDF but the one at position bad (0: none is bad).
Batch(n, bad) == [i \in 1..n |-> File(i, IF i = bad THEN OtherType ELSE PdfType)]

Batches == {Batch(n, bad) : n \in 0..MaxBatch, bad \in {0, 1, MaxBatch}}

\* The texts typed into the description field: sequences of characters.
Whitespace == {" ", "\n"}
Descriptions == {<<>>, <<" ", "\n">>, <<"a">>, <<" ", "a", "\n">>}

\* String.prototype.trim: leading and trailing whitespace removed.
RECURSIVE TrimStart(_)
TrimStart(str) ==
  IF str # <<>> /\ Head(str) \in Whitespace THEN TrimStart(Tail(str)) ELSE str

RECURSIVE TrimEnd(_)
TrimEnd(str) ==
  IF str # <<>> /\ str[Len(str)] \in Whitespace
  THEN TrimEnd(SubSeq(str, 1, Len(str) - 1))
  ELSE str

Trim(str) == TrimEnd(TrimStart(str))

\* errors = {}
NoErrors == [resumes |-> Undefined, job_description |-> Undefined, submit |-> Undefined]

NoPayload == [resumes |-> <<>>, field |-> Undefined, job_description |-> <<>>]

\* The submit attempts one run of the model lets the user make.
MaxSubmits == 2

FormStart(f, p) ==
  /\ form = f
  /\ page = p
  /\ resumes = <<>>
  /\ job_description = <<>>
  /\ isUploading = FALSE
  /\ errors = NoErrors
  /\ isDragging = FALSE
  /\ callbackPending = FALSE
  /\ payload = NoPayload
  /\ onSubmitCalls = 0
  /\ createRequests = 0
  /\ route = "/"

FormInit == \E f \in FormVariants, p \in PageVariants : FormStart(f, p)

IsPdf(file) == file.type = PdfType

handleFileValidation_LimitOffByOne(files) ==
  LET pdfFiles == SelectSeq(files, IsPdf) IN
  IF Len(pdfFiles) # Len(files)
  THEN [keep |-> TRUE, resumes |-> <<>>, error |-> OnlyPdfMessage]
  ELSE IF Len(pdfFiles) >= MaxResumes
  THEN [keep |-> TRUE, resumes |-> <<>>, error |-> TooManyMessage]
  ELSE [keep |-> FALSE, resumes |-> pdfFiles, error |-> Null]

handleFileValidation_KeepsPdfPart(files) ==
  LET pdfFiles == SelectSeq(files, IsPdf) IN
  IF Len(pdfFiles) # Len(files)
  THEN [keep |-> FALSE, resumes |-> pdfFiles, error |-> OnlyPdfMessage]
  ELSE IF Len(pdfFiles) > MaxResumes
  THEN [keep |-> TRUE, resumes |-> <<>>, error |-> TooManyMessage]
  ELSE [keep |-> FALSE, resumes |-> pdfFiles, error |-> Null]

\* A validation that appends a valid batch to the list instead of replacing it.
handleFileValidation_Appends(files) ==
  LET pdfFiles == SelectSeq(files, IsPdf) IN
  IF Len(pdfFiles) # Len(files)
  THEN [keep |-> TRUE, resumes |-> <<>>, error |-> OnlyPdfMessage]
  ELSE IF Len(pdfFiles) > MaxResumes
  THEN [keep |-> TRUE, resumes |-> <<>>, error |-> TooManyMessage]
  ELSE [keep |-> FALSE, resumes |-> resumes \o pdfFiles, error |-> Null]

\* handleFileValidation(files): the list and the resumes error it leaves
\* (keep = TRUE: setResumes was not called and the previous list stays).
handleFileValidation(files) ==
  LET pdfFiles == SelectSeq(files, IsPdf) IN
  IF Len(pdfFiles) # Len(files)
  THEN [keep |-> TRUE, resumes |-> <<>>, error |-> OnlyPdfMessage]
  ELSE IF Len(pdfFiles) > MaxResumes
  THEN [keep |-> TRUE, resumes |-> <<>>, error |-> TooManyMessage]
  ELSE [keep |-> FALSE, resumes |-> pdfFiles, error |-> Null]

ApplyFileValidation(files) ==
  LET v == handleFileValidation(files) IN
  /\ resumes' = IF v.keep THEN resumes ELSE v.resumes
  /\ errors' = [errors EXCEPT !.resumes = v.error]

validateForm_NoTrim(res, desc) ==
  [resumes |-> IF Len(res) = 0 THEN NoResumeMessage ELSE Undefined,
   job_description |-> IF desc = <<>> THEN NoDescriptionMessage ELSE Undefined,
   submit |-> Undefined]

\* validateForm(): the newErrors object it builds.
validateForm(res, desc) ==
  [resumes |-> IF Len(res) = 0 THEN NoResumeMessage ELSE Undefined,
   job_description |-> IF Trim(desc) = <<>> THEN NoDescriptionMessage ELSE Undefined,
   submit |-> Undefined]

\* The disabled attribute of the submit button.
SubmitDisabled ==
  IF form = "full"
  THEN isUploading \/ Len(resumes) = 0 \/ Trim(job_description) = <<>>
  ELSE isUploading

\* The name under which the description is appended to the FormData.
DescriptionField == IF form = "full" THEN "job_description" ELSE "jobDescription"

\* `${v}` in a template literal.
JsString(v) == IF v = Undefined THEN "undefined" ELSE v

\* The create-job round trips the model draws from: a success response with a
\* job_id, one without, one whose body is not JSON, a non-success response, and
\* no response.
CreateResponses ==
  {HttpOk([job_id |-> "job-1"]), HttpOk([job_id |-> Undefined]),
   [HttpOk([job_id |-> Undefined]) EXCEPT !.json = FALSE],
   HttpError("bad upload"), NetworkFailure}

\* handleUpload(formData) from its fetch onwards: whether the promise it returned
\* rejects, and where it navigates (Undefined: nowhere).
handleUpload(p, resp) ==
  IF resp.kind = "network" THEN [threw |-> TRUE, navigate |-> Undefined]
  ELSE IF p = "App" THEN [threw |-> FALSE, navigate |-> Undefined]
  ELSE IF ~resp.ok
  THEN [threw |-> (p = "UploadPage"), navigate |-> Undefined]
  ELSE IF ~resp.json THEN [threw |-> TRUE, navigate |-> Undefined]
  ELSE [threw |-> FALSE, navigate |-> "/results/" \o JsString(resp.body.job_id)]

Mounted == route = "/"

\* onChange of the file input (disabled while uploading).
handleResumeUpload(files) ==
  /\ Mounted /\ ~isUploading
  /\ ApplyFileValidation(files)
  /\ UNCHANGED <<form, page, job_description, isUploading, isDragging,
                 callbackPending, payload, onSubmitCalls, createRequests, route>>
  /\ UNCHANGED notFormVars

handleDragEnter ==
  /\ Mounted /\ form = "full"
  /\ isDragging' = TRUE
  /\ UNCHANGED <<form, page, resumes, job_description, isUploading, errors,
                 callbackPending, payload, onSubmitCalls, createRequests, route>>
  /\ UNCHANGED notFormVars

handleDragLeave ==
  /\ Mounted /\ form = "full"
  /\ isDragging' = FALSE
  /\ UNCHANGED <<form, page, resumes, job_description, isUploading, errors,
                 callbackPending, payload, onSubmitCalls, createRequests, route>>
  /\ UNCHANGED notFormVars

\* A drop that stores the dropped files without validating them.
handleDrop_SkipsValidation(files) ==
  /\ Mounted /\ form = "full"
  /\ isDragging' = FALSE
  /\ IF isUploading
     THEN UNCHANGED <<resumes, errors>>
     ELSE resumes' = files /\ errors' = [errors EXCEPT !.resumes = Null]
  /\ UNCHANGED <<form, page, job_description, isUploading,
                 callbackPending, payload, onSubmitCalls, createRequests, route>>
  /\ UNCHANGED notFormVars

\* onDrop of the drop target, which is never disabled.
handleDrop(files) ==
  /\ Mounted /\ form = "full"
  /\ isDragging' = FALSE
  /\ IF isUploading
     THEN UNCHANGED <<resumes, errors>>
     ELSE ApplyFileValidation(files)
  /\ UNCHANGED <<form, page, job_description, isUploading,
                 callbackPending, payload, onSubmitCalls, createRequests, route>>
  /\ UNCHANGED notFormVars

\* onChange of the description field (disabled while uploading).
handlejob_descriptionChange(value) ==
  /\ Mounted /\ ~isUploading
  /\ job_description' = value
  /\ errors' = IF Trim(value) # <<>>
               THEN [errors EXCEPT !.job_description = Null]
               ELSE errors
  /\ UNCHANGED <<form, page, resumes, isUploading, isDragging,
                 callbackPending, payload, onSubmitCalls, createRequests, route>>
  /\ UNCHANGED notFormVars

\* The indexes of a list of n files the model removes at: the first and the last.
RemoveIndexes(n) == {1, n} \cap (1..n)

\* onClick of a file's remove button (disabled while uploading).
removeResume(index) ==
  /\ Mounted /\ ~isUploading
  /\ index \in 1..Len(resumes)
  /\ resumes' = [i \in 1..(Len(resumes) - 1) |->
                   IF i < index THEN resumes[i] ELSE resumes[i + 1]]
  /\ UNCHANGED <<form, page, job_description, isUploading, errors, isDragging,
                 callbackPending, payload, onSubmitCalls, createRequests, route>>
  /\ UNCHANGED notFormVars

\* onSubmit of the form, up to `await onSubmit(formData)`: validateForm, and for a
\* valid form the FormData is built and handed to onSubmit, whose handler issues
\* the create-job request before it first awaits.
handleSubmit ==
  /\ Mounted /\ ~SubmitDisabled
  /\ onSubmitCalls < MaxSubmits
  /\ LET newErrors == validateForm(resumes, job_description) IN
       /\ errors' = newErrors
       /\ IF newErrors # NoErrors
          THEN UNCHANGED <<isUploading, callbackPending, payload,
                           onSubmitCalls, createRequests>>
          ELSE /\ isUploading' = TRUE
               /\ payload' = [resumes |-> resumes, field |-> DescriptionField,
                              job_description |-> job_description]
               /\ onSubmitCalls' = onSubmitCalls + 1
               /\ createRequests' = createRequests + 1
               /\ callbackPending' = TRUE
  /\ UNCHANGED <<form, page, resumes, job_description, isDragging, route>>
  /\ UNCHANGED notFormVars

SubmitSettles_ResetsOnFailure(resp) ==
  /\ callbackPending
  /\ LET out == handleUpload(page, resp) IN
       /\ route' = IF out.navigate # Undefined THEN out.navigate ELSE route
       /\ resumes' = <<>>
       /\ job_description' = <<>>
       /\ errors' = IF out.threw
                    THEN [NoErrors EXCEPT !.submit = SubmitFailedMessage]
                    ELSE NoErrors
  /\ isUploading' = FALSE
  /\ callbackPending' = FALSE
  /\ payload' = NoPayload
  /\ UNCHANGED <<form, page, isDragging, onSubmitCalls, createRequests>>
  /\ UNCHANGED notFormVars

SubmitSettles_StaysBusyOnFailure(resp) ==
  /\ callbackPending
  /\ LET out == handleUpload(page, resp) IN
       /\ route' = IF out.navigate # Undefined THEN out.navigate ELSE route
       /\ IF out.threw
          THEN /\ errors' = [errors EXCEPT !.submit = SubmitFailedMessage]
               /\ UNCHANGED <<resumes, job_description, isUploading>>
          ELSE /\ resumes' = <<>>
               /\ job_description' = <<>>
               /\ errors' = NoErrors
               /\ isUploading' = FALSE
  /\ callbackPending' = FALSE
  /\ payload' = NoPayload
  /\ UNCHANGED <<form, page, isDragging, onSubmitCalls, createRequests>>
  /\ UNCHANGED notFormVars

\* The create-job round trip ends; the handler runs to its end and handleSubmit
\* resumes after its await: the reset, or the catch block, and then the finally.
SubmitSettles(resp) ==
  /\ callbackPending
  /\ LET out == handleUpload(page, resp) IN
       /\ route' = IF out.navigate # Undefined THEN out.navigate ELSE route
       /\ IF out.threw
          THEN /\ errors' = [errors EXCEPT !.submit = SubmitFailedMessage]
               /\ UNCHANGED <<resumes, job_description>>
          ELSE /\ resumes' = <<>>
               /\ job_description' = <<>>
               /\ errors' = NoErrors
  /\ isUploading' = FALSE
  /\ callbackPending' = FALSE
  /\ payload' = NoPayload
  /\ UNCHANGED <<form, page, isDragging, onSubmitCalls, createRequests>>
  /\ UNCHANGED notFormVars

FormNext ==
  \/ \E files \in Batches : handleResumeUpload(files)
  \/ handleDragEnter
  \/ handleDragLeave
  \/ \E files \in Batches : handleDrop(files)
  \/ \E value \in Descriptions : handlejob_descriptionChange(value)
  \/ \E index \in RemoveIndexes(Len(resumes)) : removeResume(index)
  \/ handleSubmit
  \/ \E resp \in CreateResponses : SubmitSettles(resp)

(***************************************************************************)
(* Ranking client: a caller making single calls.                           *)
(***************************************************************************)
\* The client calls one run of the model makes.
MaxCalls == 2

ClientInit == clientLog = <<>>

\* One call of one of the four operations, from its fetch to its return or throw.
ClientCalls(op, resp) ==
  /\ Len(clientLog) < MaxCalls
  /\ clientLog' = Append(clientLog, [op |-> op, resp |-> resp, result |-> Call(op, resp)])
  /\ UNCHANGED notClientVars

ClientNext == \E op \in Operations, resp \in ClientResponses : ClientCalls(op, resp)

(***************************************************************************)
(* Results view (ResultsPage).                                             *)
(*                                                                         *)
(* A candidate is a record with an id, a name (a sequence of UTF-16 code   *)
(* units, which the view lower-cases and compares), a score and, unless    *)
(* the service left it out, the years of experience.                       *)
(***************************************************************************)
Candidate(id, name, score, experience) ==
  [id |-> id, name |-> name, score |-> score, experience |-> experience]

CandidateNoExperience(id, name, score) == [id |-> id, name |-> name, score |-> score]

\* The candidates the service's result sets are drawn from: "Al" 92, "bo" 78,
\* "Bo" 78 and "cy" 61, with ties in score, in name up to case and in experience.
CandidatePool ==
  {Candidate("c1", <<65, 108>>, 92, 5),
   CandidateNoExperience("c2", <<98, 111>>, 78),
   Candidate("c3", <<66, 111>>, 78, 0),
   Candidate("c4", <<99, 121>>, 61, 5)}

\* The longest candidate list of a result set in the model.
MaxCandidates == 3

IsInjective(seq) == \A i, j \in 1..Len(seq) : seq[i] = seq[j] => i = j

CandidateLists ==
  UNION {{seq \in [1..n -> CandidatePool] : IsInjective(seq)} : n \in 0..MaxCandidates}

SortKeys == {"score", "name", "experience"}
SortOrders == {"asc", "desc"}

\* The engines the view's Array.prototype.sort call may run on. The comparator
\* never returns 0, so it is not a consistent comparator and the order of the
\* result is implementation-defined: "v8" is V8's TimSort (for the arrays of
\* fewer than 64 elements the model holds: one run, then binary insertion), and
\* "merge" is an engine that keeps the earlier of two elements whenever
\* comparefn(earlier, later) <= 0.
Engines == {"v8", "merge"}

\* String.prototype.toLowerCase on code units: A-Z to a-z.
ToLowerCase(str) ==
  [i \in 1..Len(str) |-> IF str[i] >= 65 /\ str[i] <= 90 THEN str[i] + 32 ELSE str[i]]

\* a < b on strings: the first differing code unit decides, a proper prefix is less.
RECURSIVE StringLess(_, _)
StringLess(a, b) ==
  IF b = <<>> THEN FALSE
  ELSE IF a = <<>> THEN TRUE
  ELSE IF Head(a) # Head(b) THEN Head(a) < Head(b)
  ELSE StringLess(Tail(a), Tail(b))

\* a.experience || 0
ExperienceOrZero(c) == IF "experience" \in DOMAIN c THEN c.experience ELSE 0

\* aValue < bValue for the values the switch on sortBy picks.
ValueLess(a, b, by) ==
  CASE by = "name" -> StringLess(ToLowerCase(a.name), ToLowerCase(b.name))
    [] by = "experience" -> ExperienceOrZero(a) < ExperienceOrZero(b)
    [] OTHER -> a.score < b.score

\* The compare function with the direction ignored: always the descending branch.
compareFn_IgnoresOrder(a, b, by, order) ==
  IF ValueLess(a, b, by) THEN 1 ELSE -1

\* The compare function handed to sort.
compareFn(a, b, by, order) ==
  IF order = "asc"
  THEN IF ValueLess(b, a, by) THEN 1 ELSE -1
  ELSE IF ValueLess(a, b, by) THEN 1 ELSE -1

Reverse(seq) == [i \in 1..Len(seq) |-> seq[Len(seq) + 1 - i]]

\* seq with its element at index from moved to index to (to <= from).
MoveTo(seq, from, to) ==
  [i \in 1..Len(seq) |->
     IF i < to \/ i > from THEN seq[i]
     ELSE IF i = to THEN seq[from]
     ELSE seq[i - 1]]

\* V8, CountAndMakeRun: the last index of the run that starts at index 1.
RECURSIVE V8RunEnd(_, _, _, _, _)
V8RunEnd(seq, i, descending, by, order) ==
  IF i = Len(seq) THEN i
  ELSE LET o == compareFn(seq[i + 1], seq[i], by, order) IN
       IF (descending /\ o >= 0) \/ (~descending /\ o < 0)
       THEN i
       ELSE V8RunEnd(seq, i + 1, descending, by, order)

\* V8, BinaryInsertionSort: where the pivot goes among seq[left .. right - 1].
RECURSIVE V8InsertionPoint(_, _, _, _, _, _)
V8InsertionPoint(seq, pivot, left, right, by, order) ==
  IF left >= right THEN left
  ELSE LET mid == left + ((right - left) \div 2) IN
       IF compareFn(pivot, seq[mid], by, order) < 0
       THEN V8InsertionPoint(seq, pivot, left, mid, by, order)
       ELSE V8InsertionPoint(seq, pivot, mid + 1, right, by, order)

RECURSIVE V8BinaryInsertionSort(_, _, _, _)
V8BinaryInsertionSort(seq, start, by, order) ==
  IF start > Len(seq) THEN seq
  ELSE V8BinaryInsertionSort(
         MoveTo(seq, start, V8InsertionPoint(seq, seq[start], 1, start, by, order)),
         start + 1, by, order)

V8Sort(seq, by, order) ==
  IF Len(seq) < 2 THEN seq
  ELSE LET descending == compareFn(seq[2], seq[1], by, order) < 0
           runEnd == V8RunEnd(seq, 2, descending, by, order)
           run == IF descending
                  THEN Reverse(SubSeq(seq, 1, runEnd)) \o SubSeq(seq, runEnd + 1, Len(seq))
                  ELSE seq
       IN  V8BinaryInsertionSort(run, runEnd + 1, by, order)

\* The other engine: each element is moved left past the elements before it for
\* which comparefn(earlier, element) > 0.
RECURSIVE MergeInsertionPoint(_, _, _, _, _)
MergeInsertionPoint(seq, item, j, by, order) ==
  IF j >= 1 /\ compareFn(seq[j], item, by, order) > 0
  THEN MergeInsertionPoint(seq, item, j - 1, by, order)
  ELSE j + 1

RECURSIVE MergeSortFrom(_, _, _, _)
MergeSortFrom(seq, start, by, order) ==
  IF start > Len(seq) THEN seq
  ELSE MergeSortFrom(
         MoveTo(seq, start, MergeInsertionPoint(seq, seq[start], start - 1, by, order)),
         start + 1, by, order)

\* array.sort(compareFn) on engine e.
ArraySort(e, seq, by, order) ==
  IF e = "v8" THEN V8Sort(seq, by, order) ELSE MergeSortFrom(seq, 2, by, order)

\* A JavaScript number the view displays: NaN, or an integer.
NaN == [nan |-> TRUE, value |-> 0]
Num(n) == [nan |-> FALSE, value |-> n]

\* x || 0 on a number: NaN and 0 are falsy.
NumberOrZero(x) == IF x.nan THEN Num(0) ELSE x

\* Math.floor(sum / length), for the mutation of the rounding.
MathRound_Truncates(sum, length) ==
  IF length = 0 THEN NaN ELSE Num(sum \div length)

\* Math.round(sum / length) for a sum of scores and a length: 0 / 0 is NaN, and
\* Math.round rounds to the nearest integer, a half upwards.
MathRound(sum, length) ==
  IF length = 0 THEN NaN ELSE Num(((2 * sum) + length) \div (2 * length))

\* candidates.reduce((sum, c) => sum + c.score, 0)
RECURSIVE SumScores(_)
SumScores(seq) == IF seq = <<>> THEN 0 ELSE Head(seq).score + SumScores(Tail(seq))

IsExcellent(c) == c.score >= 80
IsGood(c) == c.score >= 60 /\ c.score < 80

\* The four figures of the statistics row, rendered when results.candidates exists.
totalCandidates(res) == NumberOrZero(Num(Len(res.candidates)))
excellentMatches(res) == NumberOrZero(Num(Len(SelectSeq(res.candidates, IsExcellent))))
goodMatches(res) == NumberOrZero(Num(Len(SelectSeq(res.candidates, IsGood))))
averageScore(res) ==
  NumberOrZero(MathRound(SumScores(res.candidates), Len(res.candidates)))

NoResults == [present |-> FALSE, candidates |-> <<>>]
ResultSet(list) == [present |-> TRUE, candidates |-> list]

\* One render's sortedCandidates, and the results prop as the render leaves it:
\* the sort runs on a copy ([...results.candidates]).
Render_SortsInPlace(res, by, order) ==
  LET sorted == IF res.present THEN ArraySort(engine, res.candidates, by, order)
                               ELSE <<>>
  IN  [results |-> [res EXCEPT !.candidates = sorted], sortedCandidates |-> sorted]

Render(res, by, order) ==
  [results |-> res,
   sortedCandidates |-> IF res.present
                        THEN ArraySort(engine, res.candidates, by, order)
                        ELSE <<>>]

\* The view is mounted on engine e with the result set res.
ResultsStart(e, res) ==
  /\ engine = e
  /\ serviceReturned = res
  /\ sortBy = "score"
  /\ sortOrder = "desc"
  /\ selectedCandidate = Null
  /\ results = Render(res, "score", "desc").results
  /\ sortedCandidates = Render(res, "score", "desc").sortedCandidates

ResultsInit ==
  \E e \in Engines, res \in {NoResults} \cup {ResultSet(l) : l \in CandidateLists} :
    ResultsStart(e, res)

\* Every state change renders the view again.
Rerender(by, order) ==
  /\ results' = Render(results, by, order).results
  /\ sortedCandidates' = Render(results, by, order).sortedCandidates

\* onChange of the "Sort by" select.
setSortBy(value) ==
  /\ sortBy' = value
  /\ Rerender(value, sortOrder)
  /\ UNCHANGED <<engine, serviceReturned, sortOrder, selectedCandidate>>
  /\ UNCHANGED notResultsVars

\* onChange of the "Order" select.
setSortOrder(value) ==
  /\ sortOrder' = value
  /\ Rerender(sortBy, value)
  /\ UNCHANGED <<engine, serviceReturned, sortBy, selectedCandidate>>
  /\ UNCHANGED notResultsVars

\* onClick of a displayed candidate's details button.
selectCandidate(index) ==
  /\ index \in 1..Len(sortedCandidates)
  /\ selectedCandidate' = sortedCandidates[index].id
  /\ Rerender(sortBy, sortOrder)
  /\ UNCHANGED <<engine, serviceReturned, sortBy, sortOrder>>
  /\ UNCHANGED notResultsVars

\* onClose of the detail overlay.
closeCandidate ==
  /\ selectedCandidate # Null
  /\ selectedCandidate' = Null
  /\ Rerender(sortBy, sortOrder)
  /\ UNCHANGED <<engine, serviceReturned, sortBy, sortOrder>>
  /\ UNCHANGED notResultsVars

ResultsNext ==
  \/ \E value \in SortKeys : setSortBy(value)
  \/ \E value \in SortOrders : setSortOrder(value)
  \/ \E index \in 1..MaxCandidates : selectCandidate(index)
  \/ closeCandidate

vars == <<pollVars, formVars, clientVars, resultsVars, callerVars>>

(***************************************************************************)
(* Specifications.                                                         *)
(***************************************************************************)
\* The components' states while another component's specification runs.
ResultsIdle == ResultsStart("v8", NoResults)
FormIdle == FormStart("full", "UploadPage")

\* One pollJobStatus call against a server that answers every status request.
PollSpecInit == PollInit /\ CallerInit /\ FormIdle /\ ClientInit /\ ResultsIdle

SpecPoll == PollSpecInit /\ [][PollNext]_vars

\* One upload form, mounted by one of the pages, and its user.
FormSpecInit == FormInit /\ PollInit /\ CallerInit /\ ClientInit /\ ResultsIdle

SpecForm == FormSpecInit /\ [][FormNext]_vars

\* A caller making single calls of the ranking client's four operations.
ClientSpecInit == ClientInit /\ PollInit /\ CallerInit /\ FormIdle /\ ResultsIdle

SpecClient == ClientSpecInit /\ [][ClientNext]_vars

\* One results view over one result set, and its user.
ResultsSpecInit == ResultsInit /\ PollInit /\ CallerInit /\ FormIdle /\ ClientInit

SpecResults == ResultsSpecInit /\ [][ResultsNext]_vars

(***************************************************************************)
(* Properties of pollJobStatus.                                            *)
(***************************************************************************)
Last(seq) == seq[Len(seq)]

\* A status request answered with a status that ends neither way.
IsNonTerminal(resp) ==
  /\ resp.kind = "http" /\ resp.ok /\ resp.json
  /\ resp.body.status \notin {"completed", "failed"}

IsFailedStatus(resp) ==
  resp.kind = "http" /\ resp.ok /\ resp.json /\ resp.body.status = "failed"

IsCompletedStatus(resp) ==
  resp.kind = "http" /\ resp.ok /\ resp.json /\ resp.body.status = "completed"

\* The status call itself failed: no response, or a non-success response.
IsFailedCall(resp) == resp.kind = "network" \/ ~resp.ok

AllButLastNonTerminal ==
  \A i \in 1..(Len(responses) - 1) : IsNonTerminal(responses[i])

PendingProcessingCompleted ==
  <<HttpOk(StatusBody("pending", Undefined)),
    HttpOk(StatusBody("processing", Undefined)),
    HttpOk(StatusBody("completed", Undefined))>>

\* C1: when the status responses are pending, processing, completed, the promise
\* is fulfilled by exactly one resolve call (and no reject call) with the completed
\* status object, the progress callback has been called exactly three times, with
\* the three status objects in response order, and exactly three status requests
\* were issued: none after the completed response, and no timer is pending.
C1_ResolvesOnceAfterThreeResponses ==
  (onProgress /\ responses = PendingProcessingCompleted) =>
    /\ promiseState = "fulfilled"
    /\ resolvedWith = StatusBody("completed", Undefined)
    /\ settleCalls = 1
    /\ progressLog = <<StatusBody("pending", Undefined),
                       StatusBody("processing", Undefined),
                       StatusBody("completed", Undefined)>>
    /\ requests = 3
    /\ timersSet = 2
    /\ pollPc = "done"

C1_Witness ==
  /\ onProgress
  /\ responses = PendingProcessingCompleted
  /\ promiseState = "fulfilled"
  /\ Len(progressLog) = 3

\* C2 as stated: whenever the first terminal response is a failed status, the
\* promise is rejected with the response's message if the body carries one (any
\* string, the empty one included), and with "Job failed" if it carries none.
C2_RejectsWithServerMessageWhenPresent ==
  (responses # <<>> /\ AllButLastNonTerminal /\ IsFailedStatus(Last(responses))) =>
    /\ promiseState = "rejected"
    /\ rejectedWith = IF Last(responses).body.message \in {Undefined, Null}
                      THEN "Job failed"
                      ELSE Last(responses).body.message

\* C2 amended: whenever the first terminal response is a failed status, the promise
\* is rejected (by one reject call, never resolved) with the response's message if
\* that is a non-empty string, and with "Job failed" if the message is missing,
\* null or the empty string.
C2_RejectsWithNonEmptyServerMessage ==
  (responses # <<>> /\ AllButLastNonTerminal /\ IsFailedStatus(Last(responses))) =>
    /\ promiseState = "rejected"
    /\ settleCalls = 1
    /\ resolvedWith = NoBody
    /\ rejectedWith = IF Last(responses).body.message \in {Undefined, Null, ""}
                      THEN "Job failed"
                      ELSE Last(responses).body.message

C2_Witness ==
  /\ Len(responses) = 3
  /\ AllButLastNonTerminal
  /\ IsFailedStatus(Last(responses))
  /\ Last(responses).body.message = "disk full"
  /\ rejectedWith = "disk full"

\* C3: once a status call has failed (no response, or a non-success response), on
\* the first poll or a later one, the promise is rejected with that call's error,
\* by a single reject call; the failed request was the last one issued (no retry)
\* and it set no timer (every timer set so far belongs to an earlier response).
C3_FailedCallAbortsPolling ==
  (responses # <<>> /\ IsFailedCall(Last(responses))) =>
    /\ promiseState = "rejected"
    /\ rejectedWith = getJobStatus(Last(responses)).error
    /\ settleCalls = 1
    /\ pollPc = "done"
    /\ requests = Len(responses)
    /\ timersSet = Len(responses) - 1

C3_Witness ==
  /\ Len(responses) = 3
  /\ Last(responses) = NetworkFailure
  /\ promiseState = "rejected"
  /\ rejectedWith = FetchFailedMessage

\* C4: after n >= 1 successful responses that are all neither completed nor failed
\* (an unrecognised status included) the promise is still pending, nothing has
\* called resolve or reject, n timers have been set, and the n-th timer is either
\* pending or has fired and issued request n + 1; and a settled promise always
\* has a completed status, a failed status or a failed call as its last response.
C4_NoAttemptLimit ==
  /\ (responses # <<>> /\ \A i \in 1..Len(responses) : IsNonTerminal(responses[i])) =>
       /\ promiseState = "pending"
       /\ settleCalls = 0
       /\ timersSet = Len(responses)
       /\ \/ pollPc = "timer" /\ requests = Len(responses)
          \/ pollPc = "awaiting" /\ requests = Len(responses) + 1
  /\ promiseState \in {"fulfilled", "rejected"} =>
       /\ responses # <<>>
       /\ \/ IsCompletedStatus(Last(responses))
          \/ IsFailedStatus(Last(responses))
          \/ IsFailedCall(Last(responses))

C4_Witness ==
  /\ Len(responses) = 3
  /\ \A i \in 1..3 : IsNonTerminal(responses[i])
  /\ \E i \in 1..3 : responses[i].body.status = "queued"
  /\ pollPc = "timer"
  /\ promiseState = "pending"

(***************************************************************************)
(* Properties of the upload form.                                          *)
(***************************************************************************)
AllPdf(files) == \A i \in 1..Len(files) : files[i].type = "application/pdf"

\* Nothing but whitespace, or nothing at all.
IsBlank(str) == \A i \in 1..Len(str) : str[i] \in Whitespace

\* C5: a batch of 1 to 10 files that are all PDF passes: the file picker takes it
\* as the resume list, leaves no resumes error, and the list then passes the form's
\* resume check; a batch with a file that is not a PDF leaves "Only PDF files are
\* allowed for resumes"; an all-PDF batch of more than 10 files leaves "Maximum 10
\* resumes allowed"; a batch of no files leaves an empty list, and submitting an
\* empty list leaves "Please upload at least one resume" and calls nothing.
C5_BatchValidation ==
  [][/\ \A files \in Batches :
          handleResumeUpload(files) =>
            /\ (AllPdf(files) /\ Len(files) \in 1..10) =>
                 /\ resumes' = files
                 /\ errors'.resumes = Null
                 /\ validateForm(resumes', job_description').resumes = Undefined
            /\ ~AllPdf(files) =>
                 errors'.resumes = "Only PDF files are allowed for resumes"
            /\ (AllPdf(files) /\ Len(files) > 10) =>
                 errors'.resumes = "Maximum 10 resumes allowed"
            /\ Len(files) = 0 => resumes' = <<>>
     /\ (handleSubmit /\ Len(resumes) = 0) =>
          /\ errors'.resumes = "Please upload at least one resume"
          /\ onSubmitCalls' = onSubmitCalls
    ]_vars

C5_Witness ==
  /\ Len(resumes) = 10
  /\ AllPdf(resumes)
  /\ errors.resumes = Null
  /\ ~isUploading

\* C6: a batch from the file picker that holds a file that is not a PDF, or more
\* than 10 files, changes nothing but the resumes error: the resume list stays the
\* list selected before (no file of the batch is added), and the resumes error is
\* one of the two messages.
C6_BadBatchRejectedWhole ==
  [][\A files \in Batches :
       (handleResumeUpload(files) /\ (~AllPdf(files) \/ Len(files) > 10)) =>
         /\ resumes' = resumes
         /\ errors'.resumes \in {"Only PDF files are allowed for resumes",
                                 "Maximum 10 resumes allowed"}
         /\ errors'.job_description = errors.job_description
         /\ errors'.submit = errors.submit
    ]_vars

C6_Witness ==
  /\ resumes # <<>>
  /\ errors.resumes = "Maximum 10 resumes allowed"

\* C7: a submit of a form with no resume, or with a description that is empty or
\* all whitespace, does not call onSubmit, issues no request, does not enter the
\* busy state and sets the message of each failing field; a submit of a form whose
\* description holds a character that is not whitespace sets no description error.
C7_InvalidSubmitCallsNothing ==
  [][/\ (handleSubmit /\ (Len(resumes) = 0 \/ IsBlank(job_description))) =>
          /\ onSubmitCalls' = onSubmitCalls
          /\ createRequests' = createRequests
          /\ ~callbackPending'
          /\ ~isUploading'
          /\ Len(resumes) = 0 =>
               errors'.resumes = "Please upload at least one resume"
          /\ IsBlank(job_description) =>
               errors'.job_description = "Job description is required"
     /\ (handleSubmit /\ ~IsBlank(job_description)) =>
          errors'.job_description = Undefined
    ]_vars

C7_Witness ==
  /\ resumes # <<>>
  /\ job_description # <<>>
  /\ errors.job_description = "Job description is required"
  /\ errors.resumes = Undefined
  /\ onSubmitCalls = 0

\* C8: when the promise onSubmit returned rejects, the form sets the submit error
\* "Failed to upload. Please try again.", leaves the resume list and the
\* description as they were submitted, leaves the busy state, and the form as it
\* stands passes validation again; when the promise fulfils, and only then, the
\* resume list, the description and the errors are cleared.
C8_FailureKeepsFormForRetry ==
  [][\A resp \in CreateResponses :
       SubmitSettles(resp) =>
         IF handleUpload(page, resp).threw
         THEN /\ errors'.submit = "Failed to upload. Please try again."
              /\ resumes' = resumes /\ resumes' = payload.resumes /\ resumes' # <<>>
              /\ job_description' = job_description
              /\ job_description' = payload.job_description
              /\ ~isUploading'
              /\ validateForm(resumes', job_description') = NoErrors
         ELSE /\ resumes' = <<>>
              /\ job_description' = <<>>
              /\ errors' = NoErrors
              /\ ~isUploading'
    ]_vars

C8_Witness ==
  /\ errors.submit = "Failed to upload. Please try again."
  /\ resumes # <<>>
  /\ ~isUploading
  /\ ~callbackPending
  /\ onSubmitCalls = 1

\* A create-job request answered with a non-success HTTP response.
IsHttpFailure(resp) == resp.kind = "http" /\ ~resp.ok

\* C9: when the create-job request gets a non-success HTTP response, the handler's
\* promise rejects and the form takes its failure path (the submit error is set,
\* the resume list and the description are not reset); and every call of onSubmit
\* issues exactly one create-job request.
C9_HttpFailureReachesFailurePath ==
  [][/\ \A resp \in CreateResponses :
          (SubmitSettles(resp) /\ IsHttpFailure(resp)) =>
            /\ handleUpload(page, resp).threw
            /\ errors'.submit = "Failed to upload. Please try again."
            /\ resumes' = resumes
            /\ job_description' = job_description
     /\ createRequests' = onSubmitCalls'
    ]_vars

\* C10: the form is in the busy state exactly while the promise onSubmit returned
\* is pending: not before onSubmit is called, and not after the promise settled
\* either way; and in the busy state the submit button is disabled.
C10_BusyExactlyWhilePending ==
  /\ isUploading <=> callbackPending
  /\ isUploading => SubmitDisabled
  /\ onSubmitCalls = 0 => ~isUploading

C10_Witness ==
  /\ isUploading
  /\ callbackPending
  /\ onSubmitCalls = 2
  /\ errors.submit = Undefined

(***************************************************************************)
(* Properties of the ranking client's four operations.                     *)
(***************************************************************************)
\* The generic message of each operation.
Fallback(op) ==
  CASE op = "uploadResumes" -> "Upload failed"
    [] op = "getJobStatus" -> "Failed to get job status"
    [] op = "getJobResults" -> "Failed to get job results"
    [] op = "cleanupJob" -> "Failed to cleanup job"

\* C11: each of the four operations fails on every non-success HTTP response with
\* an error whose message is the error body's message when it has one (an empty
\* message counted as none) and the operation's generic fallback otherwise; on a
\* success response it returns the response body.
C11_FailsWithServerMessageOrFallback ==
  \A i \in 1..Len(clientLog) :
    LET call == clientLog[i] IN
      /\ IsHttpFailure(call.resp) =>
           /\ call.result.threw
           /\ call.result.error =
                IF Truthy(call.resp.detail) THEN call.resp.detail ELSE Fallback(call.op)
      /\ (call.resp.kind = "http" /\ call.resp.ok) =>
           /\ ~call.result.threw
           /\ call.result.value = call.resp.body

(***************************************************************************)
(* Properties of the results view.                                         *)
(***************************************************************************)
Scores(seq) == [i \in 1..Len(seq) |-> seq[i].score]

Elements(seq) == {seq[i] : i \in 1..Len(seq)}

IsPermutation(a, b) == Len(a) = Len(b) /\ Elements(a) = Elements(b)

\* No element of seq is followed by one that the key and the direction put before it.
OrderedBy(seq, by, order) ==
  \A i, j \in 1..Len(seq) :
    i < j => IF order = "asc" THEN ~ValueLess(seq[j], seq[i], by)
                               ELSE ~ValueLess(seq[i], seq[j], by)

\* C12: the displayed list is always a permutation of the result set's candidates
\* ordered by the chosen key in the chosen direction; the view starts with key
\* score and direction descending, where scores are non-increasing, and shows the
\* scores 92, 78, 61 in that order whatever order the service returned them in.
C12_DisplayedListOrderedByKey ==
  /\ sortBy = "score" /\ sortOrder = "desc"
  /\ [](/\ IsPermutation(sortedCandidates, serviceReturned.candidates)
        /\ OrderedBy(sortedCandidates, sortBy, sortOrder)
        /\ (sortBy = "score" /\ sortOrder = "desc") =>
             /\ \A i \in 1..(Len(sortedCandidates) - 1) :
                  sortedCandidates[i].score >= sortedCandidates[i + 1].score
             /\ (Len(sortedCandidates) = 3
                   /\ Elements(Scores(sortedCandidates)) = {92, 78, 61}) =>
                  Scores(sortedCandidates) = <<92, 78, 61>>)

\* Three candidates returned in another order than the one displayed, by name
\* ascending.
C12_Witness ==
  /\ sortBy = "name"
  /\ sortOrder = "asc"
  /\ Scores(serviceReturned.candidates) = <<61, 78, 92>>
  /\ Scores(sortedCandidates) = <<92, 78, 61>>

\* Two candidates the key does not tell apart.
TiedBy(a, b, by) == ~ValueLess(a, b, by) /\ ~ValueLess(b, a, by)

\* The index of candidate c in seq.
IndexOf(seq, c) == CHOOSE i \in 1..Len(seq) : seq[i] = c

\* C13: sorting is stable for every key and both directions: two candidates with
\* equal values of the chosen key are displayed in the relative order they have
\* in the list the service returned.
C13_SortIsStable ==
  \A i, j \in 1..Len(serviceReturned.candidates) :
    LET a == serviceReturned.candidates[i]
        b == serviceReturned.candidates[j]
    IN  (i < j /\ TiedBy(a, b, sortBy)) =>
          IndexOf(sortedCandidates, a) < IndexOf(sortedCandidates, b)

\* C14: sorting is idempotent: the sort of the displayed list by the same key and
\* direction is the displayed list.
C14_SortIsIdempotent ==
  ArraySort(engine, sortedCandidates, sortBy, sortOrder) = sortedCandidates

\* The indexes of the candidates of seq with a score in lo..hi.
ScoredWithin(seq, lo, hi) == {i \in 1..Len(seq) : seq[i].score >= lo /\ seq[i].score <= hi}

\* m is the integer nearest to sum / n (the upper one of two equally near).
IsNearestToMean(m, sum, n) ==
  /\ (2 * n * m) - (2 * sum) <= n
  /\ (2 * sum) - (2 * n * m) < n

\* The four figures follow their rules on the result set the view holds.
AggregatesFollowRules ==
  LET cands == results.candidates IN
    /\ totalCandidates(results) = Num(Len(cands))
    /\ excellentMatches(results) = Num(Cardinality(ScoredWithin(cands, 80, 100)))
    /\ goodMatches(results) = Num(Cardinality(ScoredWithin(cands, 60, 79)))
    /\ ~averageScore(results).nan
    /\ cands = <<>> => averageScore(results) = Num(0)
    /\ cands # <<>> =>
         IsNearestToMean(averageScore(results).value, SumScores(cands), Len(cands))

\* For the scores 92, 78, 61 the figures are total 3, excellent 1, the given
\* number of good matches, and average 77.
ExampleAggregates(good) ==
  Scores(results.candidates) = <<92, 78, 61>> =>
    /\ totalCandidates(results) = Num(3)
    /\ excellentMatches(results) = Num(1)
    /\ goodMatches(results) = Num(good)
    /\ averageScore(results) = Num(77)

\* C15 as stated: over the full candidate set the view reports total = the number
\* of candidates, excellent = the number with score >= 80, good = the number with
\* 60 <= score < 80 and average = the mean score rounded to the nearest integer;
\* the average of an empty candidate list is 0, not NaN; and the scores 92, 78, 61
\* give total 3, excellent 1, good 1, average 77.
C15_AggregateStatisticsAsStated ==
  results.present => (AggregatesFollowRules /\ ExampleAggregates(1))

\* C15, amended: the same rules, and the scores 92, 78, 61 give total 3,
\* excellent 1, good 2 (78 and 61 both lie in 60..79), average 77.
C15_AggregateStatistics ==
  results.present => (AggregatesFollowRules /\ ExampleAggregates(2))

\* The example result set, and the result set with scores 78 and 61 whose mean
\* 69.5 is displayed as 70.
C15_Witness ==
  /\ results.present
  /\ \/ /\ Scores(results.candidates) = <<92, 78, 61>>
        /\ goodMatches(results) = Num(2)
     \/ /\ Scores(results.candidates) = <<78, 61>>
        /\ averageScore(results) = Num(70)
  /\ sortBy = "name"

(***************************************************************************)
(* Properties of the upload form and the upload page, continued.           *)
(***************************************************************************)
\* C16: for every batch and every form state in which no upload is in progress,
\* dropping the batch leaves the resume list and the resume error in the state
\* that selecting the same batch through the file picker would: the state
\* handleFileValidation leaves, which is all the picker's handler runs.
C16_DropValidatesLikePicker ==
  [][\A files \in Batches :
       (~isUploading /\ handleDrop(files)) =>
         /\ ApplyFileValidation(files)
         /\ ENABLED handleResumeUpload(files)
    ]_vars

\* The form with the drop target holds a list of 10 files, and a batch of 11 has
\* been refused.
C16_Witness ==
  /\ form = "full"
  /\ ~isDragging
  /\ ~isUploading
  /\ Len(resumes) = MaxResumes
  /\ errors.resumes = TooManyMessage

\* C17: the upload page leaves for a results route only after a success response
\* to the create-job request, the route is the results route of the job
\* identifier in that response, and it is never built from a missing identifier.
C17_NavigatesOnlyWithJobIdentifier ==
  [][\A resp \in CreateResponses :
       (SubmitSettles(resp) /\ route' # route) =>
         /\ resp.kind = "http" /\ resp.ok /\ resp.json
         /\ resp.body.job_id # Undefined
         /\ route' = "/results/" \o resp.body.job_id
    ]_vars

\* C18: re-sorting for display never mutates the result set: after any sequence of
\* sort-key and sort-direction changes the candidate list held in the results prop
\* has the same elements in the same order as the list the service returned.
C18_ResultSetNotMutated ==
  /\ results.present = serviceReturned.present
  /\ results.candidates = serviceReturned.candidates

\* The view displays, by experience ascending, an order other than the one the
\* service returned and the prop still holds.
C18_Witness ==
  /\ results.present
  /\ sortBy = "experience"
  /\ sortOrder = "asc"
  /\ sortedCandidates # serviceReturned.candidates
  /\ results.candidates = serviceReturned.candidates

(***************************************************************************)
(* Properties of pollJobStatus, continued.                                 *)
(***************************************************************************)
\* C19: pollJobStatus has no cancellation: when the calling component has been
\* unmounted and the status request in flight returns a non-terminal status, the
\* loop still schedules a further status check, and that check still issues its
\* request; a state with the view gone and a poll timer pending is reachable.
C19_NoCancellationOnUnmount ==
  [][/\ \A resp \in StatusResponses :
          (StatusResponse(resp) /\ ~callerMounted /\ IsNonTerminal(resp)) =>
            /\ pollPc' = "timer"
            /\ timersSet' = timersSet + 1
            /\ promiseState' = "pending"
     /\ (TimerFires /\ ~callerMounted) => requests' = requests + 1
     /\ Unmount => UNCHANGED pollVars
    ]_vars

\* The component was unmounted while the first status request was in flight, the
\* request returned a non-terminal status, and the timer of the next check is
\* pending.
C19_Witness ==
  /\ ~callerMounted
  /\ unmountedWhile = "awaiting"
  /\ pollPc = "timer"
  /\ requests = 1
  /\ timersSet = 1
  /\ promiseState = "pending"

(***************************************************************************)
(* Properties of the payload the upload form submits.                      *)
(***************************************************************************)
\* The files of the list come from one batch, in the batch's order: a batch's
\* files are numbered 1, 2, ... and a list put together from two batches would
\* repeat or reorder numbers.
FromOneBatch(files) ==
  \A i, j \in 1..Len(files) : i < j => files[i].name < files[j].name

\* C20: after any sequence of picker selections, drops, removals, description
\* edits and submit attempts, every payload handed to the submit callback holds
\* between 1 and 10 files, all of type application/pdf, and a description that is
\* non-empty after trimming; the selection a payload is built from is what is
\* left of one valid batch (a new batch replaces the list, it is not appended).
C20_PayloadIsValid ==
  /\ callbackPending =>
       /\ Len(payload.resumes) \in 1..10
       /\ AllPdf(payload.resumes)
       /\ ~IsBlank(payload.job_description)
       /\ Trim(payload.job_description) # <<>>
       /\ FromOneBatch(payload.resumes)
       /\ payload.resumes = resumes
       /\ payload.job_description = job_description
  /\ Len(resumes) <= 10
  /\ AllPdf(resumes)
  /\ FromOneBatch(resumes)

\* The second payload of a run: 9 files left of a batch of 10 after a removal, and
\* a description with whitespace around its text.
C20_Witness ==
  /\ callbackPending
  /\ onSubmitCalls = 2
  /\ Len(payload.resumes) = 9
  /\ payload.resumes[1].name = 2
  /\ payload.job_description = <<" ", "a", "\n">>

(***************************************************************************)
(* Properties of the promise pollJobStatus returns.                        *)
(***************************************************************************)
\* The promise has been fulfilled or rejected.
Settled == promiseState \in {"fulfilled", "rejected"}

\* The status requests issued and not yet answered.
Outstanding == requests - Len(responses)

\* C21: for every sequence of status responses and failures, the promise of one
\* pollJobStatus call settles at most once (resolve or reject is called at most
\* once), at most one status request of the call is outstanding at any time, and
\* once the promise has settled the call issues no further status request,
\* schedules no further timer and never invokes the progress callback again.
C21_SettlesOnceThenStops ==
  /\ [](/\ settleCalls <= 1
        /\ Settled <=> settleCalls = 1
        /\ Outstanding \in {0, 1}
        /\ Outstanding = 1 <=> pollPc = "awaiting"
        /\ Settled => (Outstanding = 0 /\ pollPc # "timer"))
  /\ [][Settled =>
          /\ requests' = requests
          /\ timersSet' = timersSet
          /\ progressLog' = progressLog
          /\ settleCalls' = settleCalls
          /\ promiseState' = promiseState
          /\ resolvedWith' = resolvedWith
          /\ rejectedWith' = rejectedWith
       ]_vars

\* The call, given a progress callback, was rejected by the third response; the
\* caller has since been unmounted, and nothing of the call has moved.
C21_Witness ==
  /\ promiseState = "rejected"
  /\ settleCalls = 1
  /\ onProgress
  /\ requests = 3
  /\ Len(responses) = 3
  /\ Len(progressLog) = 3
  /\ timersSet = 2
  /\ unmountedWhile = "done"

====
